---- MODULE Spec2Model ----
(***************************************************************************)
(* The main coordination loop of spotifyd (src/src/main.rs): the future    *)
(* MainLoopState, whose poll multiplexes the discovery stream, the pending *)
(* connection attempt, the interrupt stream and the control task of the    *)
(* active session.                                                         *)
(*                                                                         *)
(* One loop iteration of poll is one step (Tick).  The sources are driven  *)
(* by the same single-threaded reactor that polls the loop (core.run), so  *)
(* they become ready only while the loop is suspended, i.e. after poll     *)
(* returned NotReady; the one exception is the control task, which handles *)
(* a shutdown request inside its own poll.                                 *)
(***************************************************************************)
EXTENDS Naturals, Sequences, FiniteSets, TLC

\* Bound of the model: the number of inputs (discovery events and interrupt
\* signals together) the environment delivers in a run.
MaxInputs == 3

\* The credential bundles discovery (or startup) can supply.
Creds == {"alice", "bob"}
NoCreds == "none"

\* Bound of the model: the number of entries of the backend registry.
MaxBackends == 3

\* The backend names a configuration or a registry entry can hold.
Names == {"alsa", "ALSA", "pipe"}

\* Option::None for the requested backend name.
NoName == "(none)"

\* Option::None.
None == 0

\* futures::future::empty(): the placeholder attempt that never resolves.
Empty == [creds |-> NoCreds, event |-> 0, status |-> "empty"]

VARIABLES
    connection,        \* the pending attempt, or Empty
    spirc,             \* None or the pair whose control handle is held
    spirc_task,        \* None or the pair whose control task is held
    shutting_down,     \* the shutdown flag
    discovery_stream,  \* credentials yielded by discovery and not yet polled
    ctrl_c_stream,     \* interrupt events delivered and not yet polled
    pairs,             \* the (Spirc, SpircTask) pairs the loop holds, by pair number
    mixers,            \* number of mixers the mixer closure has built
    pc,                \* "polling", "suspended", "done" (Ready) or "panicked"
    acts,              \* what the last loop iteration did
    hist,              \* history of the run
    backend_name,      \* the backend name the configuration requests, or NoName
    BACKENDS,          \* the registry: the names of its entries, in order
    backend            \* what find_backend returned

vars == <<connection, spirc, spirc_task, shutting_down, discovery_stream,
          ctrl_c_stream, pairs, mixers, pc, acts, hist,
          backend_name, BACKENDS, backend>>

\* What backend selection reads and writes: fixed once the loop runs.
startup == <<backend_name, BACKENDS, backend>>

\* The whole state as one record, so that the branches of poll compose.
Cur ==
    [connection |-> connection, spirc |-> spirc, spirc_task |-> spirc_task,
     shutting_down |-> shutting_down, discovery_stream |-> discovery_stream,
     ctrl_c_stream |-> ctrl_c_stream, pairs |-> pairs, mixers |-> mixers,
     pc |-> pc, acts |-> acts, hist |-> hist]

Becomes(s) ==
    /\ connection' = s.connection
    /\ spirc' = s.spirc
    /\ spirc_task' = s.spirc_task
    /\ shutting_down' = s.shutting_down
    /\ discovery_stream' = s.discovery_stream
    /\ ctrl_c_stream' = s.ctrl_c_stream
    /\ pairs' = s.pairs
    /\ mixers' = s.mixers
    /\ pc' = s.pc
    /\ acts' = s.acts
    /\ hist' = s.hist
    /\ UNCHANGED startup

\* A name with its letters in lower case.
Lower(a) == IF a = "ALSA" THEN "alsa" ELSE a

\* NameEq as it would be if the comparison ignored case.
NameEqIgnoreCase(a, b) == Lower(a) = Lower(b)

\* The comparison of line 310: equality of strings, byte for byte.
NameEq(a, b) == a = b

\* BACKENDS.iter().find(..): the position of the first entry from position i
\* on whose name equals the one asked for, 0 when there is none.
RECURSIVE Find(_, _, _)
Find(name, registry, i) ==
    IF i > Len(registry) THEN 0
    ELSE IF NameEq(name, registry[i]) THEN i
    ELSE Find(name, registry, i + 1)

\* A constructor is known by the position of its registry entry.
Selected(i, notice) == [ok |-> TRUE, ctor |-> i, notice |-> notice]
Fatal(message) == [ok |-> FALSE, ctor |-> 0, notice |-> message]
Unselected == [ok |-> FALSE, ctor |-> 0, notice |-> "not yet run"]

\* find_backend(name).
FindBackend(name, registry) ==
    IF name # NoName
    THEN LET i == Find(name, registry, 1)
         IN IF i = 0 THEN Fatal("Unknown backend") ELSE Selected(i, "")
    ELSE IF registry = <<>>
         THEN Fatal("No backends were enabled at build time")
         ELSE Selected(1, "No backend specified, defaulting to")

\* Session::connect: a fresh attempt for the credentials of bundle `event`
\* (0 is the startup bundle, n the n-th discovery event).
NewAttempt(creds, event) ==
    [creds |-> creds, event |-> event, status |-> "pending"]

\* main: one mixer is built for the discovery descriptor, the initial
\* connection is Session::connect when credentials are available and the empty
\* future otherwise; MainLoopState::new starts with no pair and the flag clear.
Init ==
    \E initial \in {"alice", NoCreds} :
        /\ connection = IF initial = NoCreds THEN Empty ELSE NewAttempt(initial, 0)
        /\ spirc = None
        /\ spirc_task = None
        /\ shutting_down = FALSE
        /\ discovery_stream = <<>>
        /\ ctrl_c_stream = 0
        /\ pairs = <<>>
        /\ mixers = 1
        /\ pc = "polling"
        /\ acts = {}
        /\ hist = [initial |-> initial, yielded |-> 0, signals |-> 0,
                   events |-> 0, interrupts |-> 0, installed |-> 0,
                   byInterrupt |-> 0, byReconnect |-> 0,
                   dropped |-> {}, panicked |-> {}]
        /\ backend_name = NoName
        /\ BACKENDS = <<"alsa">>
        /\ backend = FindBackend(backend_name, BACKENDS)

\* spirc.shutdown() on the held control handle.
Shutdown(s, by) ==
    LET s0 == [s EXCEPT !.pairs[s.spirc].requests = @ + 1]
    IN IF by = "interrupt" THEN [s0 EXCEPT !.hist.byInterrupt = @ + 1]
       ELSE [s0 EXCEPT !.hist.byReconnect = @ + 1]

\* Connect as it would be if an attempt still held were kept instead of replaced.
ConnectKeepsHeld(s, creds) ==
    IF s.connection = Empty
    THEN [s EXCEPT !.connection = NewAttempt(creds, s.hist.events)]
    ELSE s

\* self.connection = Session::connect(..): the previous future is dropped.
Connect(s, creds) ==
    LET s0 == IF s.connection = Empty THEN s
              ELSE [s EXCEPT !.hist.dropped = @ \cup {s.connection.status}]
    IN [s0 EXCEPT !.connection = NewAttempt(creds, s.hist.events)]

\* Reconnect as it would be without the shutdown request to the held handle.
ReconnectNoShutdown(s, creds) ==
    Connect([s EXCEPT !.hist.events = @ + 1, !.acts = @ \cup {"reconnect"}], creds)

\* The body of the discovery branch.
Reconnect(s, creds) ==
    LET s0 == [s EXCEPT !.hist.events = @ + 1, !.acts = @ \cup {"reconnect"}]
        s1 == IF s0.spirc # None THEN Shutdown(s0, "reconnect") ELSE s0
    IN Connect(s1, creds)

\* if let Async::Ready(Some(creds)) = self.discovery_stream.poll().unwrap()
PollDiscovery(s) ==
    IF s.discovery_stream # <<>>
    THEN Reconnect([s EXCEPT !.discovery_stream = Tail(@)], Head(s.discovery_stream))
    ELSE s

\* Spirc::new: the pair for a session, with the mixer handed to it.
NewPair(s, m) ==
    [event |-> s.connection.event, creds |-> s.connection.creds, mixer |-> m,
     task |-> "running", onItsOwn |-> FALSE, requests |-> 0,
     latest |-> s.hist.events,
     prior |-> IF s.spirc = None THEN "none"
               ELSE IF s.pairs[s.spirc].requests > 0 THEN "requested"
               ELSE "unrequested"]

\* OnAttemptResolved as it would be if installing a session reset the flag.
OnAttemptResolvedResetsFlag(s) ==
    LET m == s.mixers + 1
        p == s.hist.installed + 1
    IN [s EXCEPT !.mixers = m,
                 !.connection = Empty,
                 !.pairs = (p :> NewPair(s, m)),
                 !.spirc_task = p,
                 !.spirc = p,
                 !.shutting_down = FALSE,
                 !.hist.installed = p,
                 !.acts = @ \cup {"install"}]

\* OnAttemptResolved as it would be without clearing the resolved attempt.
OnAttemptResolvedKeepsAttempt(s) ==
    LET m == s.mixers + 1
        p == s.hist.installed + 1
    IN [s EXCEPT !.mixers = m,
                 !.pairs = (p :> NewPair(s, m)),
                 !.spirc_task = p,
                 !.spirc = p,
                 !.hist.installed = p,
                 !.acts = @ \cup {"install"}]

\* OnAttemptResolved as it would be if it built no mixer of its own and
\* handed the pair the newest mixer there is.
OnAttemptResolvedReusesMixer(s) ==
    LET m == s.mixers
        p == s.hist.installed + 1
    IN [s EXCEPT !.connection = Empty,
                 !.pairs = (p :> NewPair(s, m)),
                 !.spirc_task = p,
                 !.spirc = p,
                 !.hist.installed = p,
                 !.acts = @ \cup {"install"}]

\* OnAttemptResolved as it would be if it stored the task and not the handle.
OnAttemptResolvedTaskOnly(s) ==
    LET m == s.mixers + 1
        p == s.hist.installed + 1
    IN [s EXCEPT !.mixers = m,
                 !.connection = Empty,
                 !.pairs = (p :> NewPair(s, m)),
                 !.spirc_task = p,
                 !.hist.installed = p,
                 !.acts = @ \cup {"install"}]

\* The body of the connection branch: build a mixer, clear the attempt, build
\* the player and the pair, install the pair (the previous pair is dropped).
OnAttemptResolved(s) ==
    LET m == s.mixers + 1
        p == s.hist.installed + 1
    IN [s EXCEPT !.mixers = m,
                 !.connection = Empty,
                 !.pairs = (p :> NewPair(s, m)),
                 !.spirc_task = p,
                 !.spirc = p,
                 !.hist.installed = p,
                 !.acts = @ \cup {"install"}]

\* self.connection.poll().unwrap() on an Err: the unwrap panics.
OnAttemptFailed(s) ==
    [s EXCEPT !.hist.panicked = {s.connection.event},
              !.pc = "panicked",
              !.acts = @ \cup {"panic"}]

\* OnInterrupt as it would be without the test of the flag.
OnInterruptUnguarded(s) ==
    LET s0 == [s EXCEPT !.ctrl_c_stream = @ - 1, !.hist.interrupts = @ + 1]
    IN IF s0.spirc # None
       THEN [Shutdown(s0, "interrupt") EXCEPT !.shutting_down = TRUE,
                                              !.acts = @ \cup {"interrupt"}]
       ELSE [s0 EXCEPT !.pc = "done", !.acts = @ \cup {"terminate"}]

\* OnInterrupt as it would be if it set the flag whether or not a session exists.
OnInterruptAlwaysWaits(s) ==
    LET s0 == [s EXCEPT !.ctrl_c_stream = @ - 1, !.hist.interrupts = @ + 1]
    IN IF ~s0.shutting_down
       THEN IF s0.spirc # None
            THEN [Shutdown(s0, "interrupt") EXCEPT !.shutting_down = TRUE,
                                                   !.acts = @ \cup {"interrupt"}]
            ELSE [s0 EXCEPT !.shutting_down = TRUE, !.acts = @ \cup {"interrupt"}]
       ELSE s0

\* The body of the interrupt branch.
OnInterrupt(s) ==
    LET s0 == [s EXCEPT !.ctrl_c_stream = @ - 1, !.hist.interrupts = @ + 1]
    IN IF ~s0.shutting_down
       THEN IF s0.spirc # None
            THEN [Shutdown(s0, "interrupt") EXCEPT !.shutting_down = TRUE,
                                                   !.acts = @ \cup {"interrupt"}]
            ELSE [s0 EXCEPT !.pc = "done", !.acts = @ \cup {"terminate"}]
       ELSE s0

\* OnTaskResolved as it would be if only a requested shutdown ended the loop.
OnTaskResolvedIfShuttingDown(s) ==
    IF s.shutting_down
    THEN [s EXCEPT !.pc = "done", !.acts = @ \cup {"terminate"}]
    ELSE [s EXCEPT !.pc = "suspended"]

\* The control task branch: the held task has resolved, poll returns Ready.
OnTaskResolved(s) ==
    [s EXCEPT !.pc = "done", !.acts = @ \cup {"terminate"}]

\* The chain as it would be if the interrupt branch were an `if` of its own
\* after the connection branch instead of its `else if`.
PollRestFallsThrough(s) ==
    IF s.connection.status = "err"
    THEN OnAttemptFailed(s)
    ELSE LET s1 == IF s.connection.status = "ok" THEN OnAttemptResolved(s) ELSE s
         IN IF s1.ctrl_c_stream > 0
            THEN OnInterrupt(s1)
            ELSE IF s.connection.status = "ok"
            THEN s1
            ELSE IF s1.spirc_task # None /\ s1.pairs[s1.spirc_task].task = "resolved"
            THEN OnTaskResolved(s1)
            ELSE [s1 EXCEPT !.pc = "suspended"]

\* The if / else-if chain of one loop iteration, after the discovery branch.
PollRest(s) ==
    IF s.connection.status = "err"
    THEN OnAttemptFailed(s)
    ELSE IF s.connection.status = "ok"
    THEN OnAttemptResolved(s)
    ELSE IF s.ctrl_c_stream > 0
    THEN OnInterrupt(s)
    ELSE IF s.spirc_task # None /\ s.pairs[s.spirc_task].task = "resolved"
    THEN OnTaskResolved(s)
    ELSE [s EXCEPT !.pc = "suspended"]

\* One iteration of the loop in poll.
Iteration(s) == PollRest(PollDiscovery([s EXCEPT !.acts = {}]))

Tick ==
    /\ pc = "polling"
    /\ Becomes(Iteration(Cur))

\* Whether a source the loop holds would notify the reactor.
SourceReady ==
    \/ discovery_stream # <<>>
    \/ ctrl_c_stream > 0
    \/ connection.status \in {"ok", "err"}
    \/ spirc_task # None /\ pairs[spirc_task].task = "resolved"

\* core.run polls the loop again once a source it holds has notified.
Wake ==
    /\ pc = "suspended"
    /\ SourceReady
    /\ pc' = "polling"
    /\ UNCHANGED <<connection, spirc, spirc_task, shutting_down, discovery_stream,
                   ctrl_c_stream, pairs, mixers, acts, hist, startup>>

\* A remote controller selects the device: discovery yields credentials.
Discover(c) ==
    /\ pc = "suspended"
    /\ hist.yielded + hist.signals < MaxInputs
    /\ discovery_stream' = Append(discovery_stream, c)
    /\ hist' = [hist EXCEPT !.yielded = @ + 1]
    /\ UNCHANGED <<connection, spirc, spirc_task, shutting_down, ctrl_c_stream,
                   pairs, mixers, pc, acts, startup>>

\* The OS delivers an interrupt signal.
Signal ==
    /\ pc = "suspended"
    /\ hist.yielded + hist.signals < MaxInputs
    /\ ctrl_c_stream' = ctrl_c_stream + 1
    /\ hist' = [hist EXCEPT !.signals = @ + 1]
    /\ UNCHANGED <<connection, spirc, spirc_task, shutting_down, discovery_stream,
                   pairs, mixers, pc, acts, startup>>

\* The pending connection attempt completes, with a session or with an error.
\* A superseded attempt was dropped with its future: it makes no more progress.
AttemptResolves(outcome) ==
    /\ pc = "suspended"
    /\ connection.status = "pending"
    /\ connection' = [connection EXCEPT !.status = outcome]
    /\ UNCHANGED <<spirc, spirc_task, shutting_down, discovery_stream,
                   ctrl_c_stream, pairs, mixers, pc, acts, hist, startup>>

\* The session of the held pair ends on its own (remote takeover, protocol
\* error): its control task resolves.
SessionEnds ==
    /\ pc = "suspended"
    /\ spirc_task # None
    /\ pairs[spirc_task].task = "running"
    /\ pairs' = [pairs EXCEPT ![spirc_task].task = "resolved",
                              ![spirc_task].onItsOwn = (pairs[spirc_task].requests = 0)]
    /\ UNCHANGED <<connection, spirc, spirc_task, shutting_down, discovery_stream,
                   ctrl_c_stream, mixers, pc, acts, hist, startup>>

\* The held control task has handled a shutdown request: it resolves.
ShutdownCompletes ==
    /\ pc \in {"polling", "suspended"}
    /\ spirc_task # None
    /\ pairs[spirc_task].task = "running"
    /\ pairs[spirc_task].requests > 0
    /\ pairs' = [pairs EXCEPT ![spirc_task].task = "resolved"]
    /\ UNCHANGED <<connection, spirc, spirc_task, shutting_down, discovery_stream,
                   ctrl_c_stream, mixers, pc, acts, hist, startup>>

Next ==
    \/ Tick
    \/ Wake
    \/ \E c \in Creds : Discover(c)
    \/ Signal
    \/ \E outcome \in {"ok", "err"} : AttemptResolves(outcome)
    \/ SessionEnds
    \/ ShutdownCompletes

Spec == Init /\ [][Next]_vars

\* The registries of at most n entries.
Registries(n) == UNION {[1..k -> Names] : k \in 0..n}

\* Startup before backend selection, for every requested name and registry.
BackendInit ==
    /\ backend_name \in Names \cup {NoName}
    /\ BACKENDS \in Registries(MaxBackends)
    /\ backend = Unselected
    /\ pc = "startup"
    /\ connection = Empty
    /\ spirc = None
    /\ spirc_task = None
    /\ shutting_down = FALSE
    /\ discovery_stream = <<>>
    /\ ctrl_c_stream = 0
    /\ pairs = <<>>
    /\ mixers = 0
    /\ acts = {}
    /\ hist = [initial |-> NoCreds, yielded |-> 0, signals |-> 0,
               events |-> 0, interrupts |-> 0, installed |-> 0,
               byInterrupt |-> 0, byReconnect |-> 0,
               dropped |-> {}, panicked |-> {}]

\* main: let backend = find_backend(..); a failed expect ends the process.
SelectBackend ==
    /\ pc = "startup"
    /\ backend' = FindBackend(backend_name, BACKENDS)
    /\ pc' = IF backend'.ok THEN "selected" ELSE "panicked"
    /\ UNCHANGED <<connection, spirc, spirc_task, shutting_down, discovery_stream,
                   ctrl_c_stream, pairs, mixers, acts, hist, backend_name, BACKENDS>>

BackendSpec == BackendInit /\ [][SelectBackend]_vars

\* The reactor polls the loop whenever a source is ready, the loop runs until
\* poll returns, and a control task that was sent a shutdown request resolves.
FairSpec ==
    /\ Spec
    /\ WF_vars(Tick)
    /\ WF_vars(Wake)
    /\ WF_vars(ShutdownCompletes)

----------------------------------------------------------------------------
\* The loop is alive: poll has returned neither Ready nor panicked.
Running == pc \in {"polling", "suspended"}

\* The pairs LoopState holds through its handle and its task.
Held == {spirc, spirc_task} \ {None}

\* C1: LoopState holds at most one session pair at any time, and a pair that
\* was installed over an existing pair replaced one whose control handle had
\* already been sent a shutdown request.
C1_OnePairPriorShutDown ==
    /\ Cardinality(Held) <= 1
    /\ DOMAIN pairs = Held
    /\ \A p \in DOMAIN pairs : pairs[p].prior # "unrequested"

\* A second pair has been installed over a first one.
C1_Witness ==
    /\ spirc # None
    /\ pairs[spirc].prior = "requested"
    /\ hist.installed >= 2

\* C2 as claimed: once discovery event n has been processed, a pair held by
\* LoopState derives from event n's credentials.
C2_AsClaimed ==
    (hist.events >= 1 /\ spirc # None) => pairs[spirc].event = hist.events

\* C3: an attempt superseded by a discovery event before the loop observed its
\* result is never observed: every pair was installed from the attempt of the
\* newest bundle processed at that time, a panic can only come from the newest
\* attempt, and the attempt held is always the newest bundle's.
C3_SupersededNeverObserved ==
    /\ \A p \in DOMAIN pairs : pairs[p].event = pairs[p].latest
    /\ connection # Empty => connection.event = hist.events
    /\ \A e \in hist.panicked : e = hist.events

\* alice's attempt resolved with a session, was superseded unobserved, and
\* the pair installed afterwards is bob's.
C3_Witness ==
    /\ "ok" \in hist.dropped
    /\ hist.initial = "alice"
    /\ hist.events = 1
    /\ spirc # None
    /\ pairs[spirc].creds = "bob"
    /\ hist.installed = 1

\* C4 as claimed: once the first interrupt has been handled, the loop
\* eventually ends (poll returns Ready, or the loop is gone with a panic).
C4_AsClaimed == (hist.interrupts >= 1) ~> ~Running

\* C5 as claimed: a connection attempt that resolves to an error does not
\* crash the loop.
C5_AsClaimed == pc # "panicked"

\* C6: shutting_down starts false and no step sets it back to false.
C6_FlagMonotone ==
    /\ ~shutting_down
    /\ [][shutting_down => shutting_down']_vars

\* The flag is set, a new pair was installed after it was set and a further
\* interrupt was handled.
C6_Witness ==
    /\ shutting_down
    /\ hist.installed = 2
    /\ hist.interrupts = 2
    /\ hist.events = 1

\* An interrupt is handled in this step while the flag is already set.
LaterInterruptStep == shutting_down /\ hist'.interrupts = hist.interrupts + 1

\* C7: an interrupt handled while shutting_down is set sends no shutdown
\* request, does not end the loop and leaves LoopState as it was (but for a
\* reconnect done by the same iteration); interrupts cause at most one
\* shutdown request in a run.
C7_SecondInterruptNoOp ==
    /\ [](hist.byInterrupt <= 1)
    /\ [][LaterInterruptStep =>
            /\ hist'.byInterrupt = hist.byInterrupt
            /\ pc' = pc
            /\ shutting_down'
            /\ spirc' = spirc /\ spirc_task' = spirc_task
            /\ mixers' = mixers
            /\ DOMAIN pairs' = DOMAIN pairs
            /\ "reconnect" \notin acts' =>
                  /\ connection' = connection
                  /\ pairs' = pairs
                  /\ discovery_stream' = discovery_stream
                  /\ hist'.byReconnect = hist.byReconnect]_vars

\* A second interrupt has been handled with the flag set, with no reconnect
\* in the same iteration.
C7_Witness ==
    /\ shutting_down
    /\ hist.interrupts = 2
    /\ hist.byInterrupt = 1
    /\ acts = {}
    /\ pc = "polling"

\* The first interrupt is handled in this step.
FirstInterruptStep == hist.interrupts = 0 /\ hist'.interrupts = 1

\* The held control task has resolved and no connection attempt is held.
TaskResolvedNoAttempt ==
    /\ Running
    /\ spirc_task # None
    /\ pairs[spirc_task].task = "resolved"
    /\ connection = Empty

C9_SpontaneousEndTerminates ==
    (/\ Running
     /\ ~shutting_down
     /\ spirc_task # None
     /\ pairs[spirc_task].task = "resolved"
     /\ pairs[spirc_task].requests = 0) ~> (pc = "done")

\* The loop has terminated on a session that ended on its own.
C9_Witness ==
    /\ pc = "done"
    /\ ~shutting_down
    /\ spirc_task # None
    /\ pairs[spirc_task].task = "resolved"
    /\ pairs[spirc_task].requests = 0
    /\ hist.interrupts = 0

\* C10: with no startup credentials and no discovery event there is never an
\* attempt or a pair, the loop does not end before an interrupt is handled,
\* and the first interrupt ends it with no shutdown request sent.
C10_IdleUntilInterrupt ==
    (hist.initial = NoCreds /\ hist.yielded = 0) =>
        /\ connection = Empty
        /\ spirc = None /\ spirc_task = None
        /\ hist.installed = 0
        /\ ~shutting_down
        /\ hist.byInterrupt = 0 /\ hist.byReconnect = 0
        /\ hist.interrupts = 0 => Running
        /\ hist.interrupts >= 1 => (pc = "done" /\ hist.interrupts = 1)

\* The idle daemon was interrupted and has terminated.
C10_Witness ==
    /\ hist.initial = NoCreds
    /\ hist.yielded = 0
    /\ hist.interrupts = 1
    /\ pc = "done"

\* The entries of the registry whose name is exactly the requested one.
Matches == {i \in 1..Len(BACKENDS) : BACKENDS[i] = backend_name}

\* C11: find_backend returns, for a given name, the constructor of the first
\* registry entry with exactly that name, and for no name the constructor of
\* the first entry; it fails when the name matches no entry and when no name
\* is given and the registry is empty.
C11_FindBackend ==
    pc # "startup" =>
        IF backend_name # NoName
        THEN IF Matches = {}
             THEN ~backend.ok /\ pc = "panicked"
             ELSE /\ backend.ok
                  /\ backend.ctor \in Matches
                  /\ \A i \in Matches : backend.ctor <= i
        ELSE IF BACKENDS = <<>>
             THEN ~backend.ok /\ pc = "panicked"
             ELSE backend.ok /\ backend.ctor = 1

\* "alsa" was asked for in a registry that lists "ALSA" first and "alsa" twice.
C11_Witness ==
    /\ pc = "selected"
    /\ backend_name = "alsa"
    /\ BACKENDS = <<"ALSA", "alsa", "alsa">>
    /\ backend.ctor = 2

\* C12 as claimed: a loop iteration performs at most one state-changing
\* action among reconnect, installation, the interrupt transition and
\* termination.
C12_AsClaimed == Cardinality(acts) <= 1

\* C12: a loop iteration performs at most one action of the chain
\* (installation, the interrupt transition, termination or the panic), which a
\* reconnect of the same iteration may precede.
C12_OneChainActionPerTick == Cardinality(acts \ {"reconnect"}) <= 1

\* One iteration has reconnected and then handled the first interrupt.
C12_Witness ==
    /\ acts = {"reconnect", "interrupt"}
    /\ shutting_down
    /\ connection.status = "pending"
    /\ connection.event = hist.events

\* C13 as claimed: when the attempt has resolved with a session and an
\* interrupt is ready at the same time, the pair is installed first and the
\* interrupt, handled by the next iteration, sends the new pair a shutdown
\* request and sets shutting_down, the loop still running.
C13_AsClaimed ==
    [][("install" \in acts
         /\ hist'.interrupts = hist.interrupts + 1
         /\ "reconnect" \notin acts') =>
            /\ shutting_down'
            /\ pc' = "polling"
            /\ pairs'[spirc'].requests > 0]_vars

\* C14 as claimed: when the loop has terminated, an interrupt was handled or
\* the control task that resolved had never been sent a shutdown request.
C14_AsClaimed ==
    pc = "done" =>
        \/ hist.interrupts >= 1
        \/ spirc_task # None /\ pairs[spirc_task].onItsOwn

\* The credential bundles the loop has received: the startup bundle, if any,
\* and the discovery events it has processed.
Bundles == (IF hist.initial = NoCreds THEN 0 ELSE 1) + hist.events

\* C15: installing a pair leaves the empty future as the pending attempt, and
\* the number of pairs ever installed is at most the number of credential
\* bundles received.
C15_OneInstallPerAttempt ==
    /\ hist.installed <= Bundles
    /\ "install" \in acts => connection = Empty
    /\ connection # Empty => hist.installed < Bundles

\* Two bundles were received and each of them installed a pair.
C15_Witness ==
    /\ hist.initial = "alice"
    /\ hist.events = 1
    /\ hist.installed = 2
    /\ connection = Empty

\* C16: every installation builds exactly one mixer and hands it to the pair
\* it installs: pair p holds mixer p + 1, so no two pairs share a mixer, and
\* mixer 1, built at startup for the discovery descriptor, belongs to no pair.
C16_FreshMixerPerPair ==
    /\ mixers = 1 + hist.installed
    /\ \A p \in DOMAIN pairs : pairs[p].mixer = p + 1

\* A second pair was installed, with the third mixer.
C16_Witness ==
    /\ spirc = 2
    /\ pairs[2].mixer = 3
    /\ mixers = 3

\* C17: shutting_down is set only with a session pair held and after an
\* interrupt sent a shutdown request; an interrupt handled with no session
\* ends the loop and leaves the flag clear.
C17_FlagNeedsSession ==
    /\ shutting_down => (spirc # None /\ spirc_task # None /\ hist.byInterrupt = 1)
    /\ (spirc = None /\ hist.interrupts >= 1) => (pc = "done" /\ ~shutting_down)

\* The flag is set while the pair held is one installed after the interrupt.
C17_Witness ==
    /\ shutting_down
    /\ spirc = 2
    /\ pairs[spirc].requests = 0
    /\ hist.byInterrupt = 1

\* C18: the handle and the task held are both absent or both those of the
\* same pair, and no step changes one without the other.
C18_HandleAndTaskTogether ==
    /\ [](spirc = spirc_task)
    /\ [][(spirc' # spirc) <=> (spirc_task' # spirc_task)]_vars

\* The handle and the task of the second pair replaced those of the first.
C18_Witness ==
    /\ spirc = 2
    /\ spirc_task = 2
    /\ "install" \in acts

====
